---- MODULE Spec2Model ----
(***************************************************************************)
(* Model of tools/embedding_server.py: the BGE-M3 embedding server.        *)
(*                                                                         *)
(* The module-level state (the global bge_m3_ef, the startup hooks         *)
(* registered on the app, os.environ["TRANSFORMERS_CACHE"]) and the        *)
(* handlers (startup_event, override_model_settings, embed,                *)
(* embed_document, health_check) are translated from the source.  The      *)
(* embedding library (BGEM3EmbeddingFunction and its encode operations)    *)
(* is a black box: every call into it draws its outcome from a set.        *)
(*                                                                         *)
(* Python strings that are compared with each other (model identifiers,    *)
(* file-system paths) are records [abs, parts]: "BAAI/bge-m3" is           *)
(* [abs |-> FALSE, parts |-> <<"BAAI", "bge-m3">>].                        *)
(***************************************************************************)
EXTENDS Integers, Sequences, FiniteSets, TLC

VARIABLES
    server,      \* position of the process: "imported", "starting", "serving", "exited"
    launcher,    \* TRUE iff the process runs the __main__ block
    on_startup,  \* the hooks registered with @app.on_event("startup"), in order
    hookIdx,     \* index in on_startup of the next hook to run
    args,        \* the parsed command line (None unless launcher)
    fs,          \* the paths that exist on disk
    environ,     \* os.environ["TRANSFORMERS_CACHE"] (None when unset)
    bge_m3_ef,   \* the global model handle (None until constructed)
    ctorCalls,   \* the calls of BGEM3EmbeddingFunction(...) made so far
    log,         \* the records the startup hooks gave to the logger
    last         \* the last request handled and its outcome (None before)

vars == <<server, launcher, on_startup, hookIdx, args, fs, environ,
          bge_m3_ef, ctorCalls, log, last>>

\* Python's None (a record, so that it compares with every modelled object).
None == [py |-> "None"]

-----------------------------------------------------------------------------
(* Bounds and input sets *)

\* The longest texts list of a request and the longest list the library returns.
MaxTexts == 2

SeqsUpTo(S, n) == UNION {[1..k -> S] : k \in 0..n}

Str(parts) == [abs |-> FALSE, parts |-> parts]
AbsPath(parts) == [abs |-> TRUE, parts |-> parts]

\* The default of --model, of EmbeddingRequest.model_name and of startup_event.
DefaultModel == Str(<<"BAAI", "bge-m3">>)
OtherModel == Str(<<"acme", "bge-m3-ft">>)
RemoteModels == {DefaultModel, OtherModel}

\* The working directory of the process.
Cwd == <<"srv", "app">>

\* Values of --local-model-path: absent, empty, absolute, relative, relative with "..".
LocalModelPaths ==
    { None,
      Str(<< >>),
      AbsPath(<<"models", "bge-m3">>),
      Str(<<"bge-m3">>),
      Str(<<"..", "cache", "bge-m3">>) }

\* The disks the process may find.
FileSystems ==
    { {},
      {AbsPath(<<"models", "bge-m3">>)},
      {AbsPath(<<"srv", "cache", "bge-m3">>), AbsPath(<<"srv", "app", "bge-m3">>)} }

\* --device with --fp16 (the parser accepts every combination).
Devices == {"cpu", "cuda:0"}

LaunchArgs ==
    [model : RemoteModels, local_model_path : LocalModelPaths,
     device : Devices, fp16 : BOOLEAN]

\* The dimensions a loaded model reports.
Dims == { [dense |-> 1024, sparse |-> 250002], [dense |-> 768, sparse |-> 30522] }

\* Outcomes of the constructor BGEM3EmbeddingFunction(...).
CtorErrors == {"download failed"}
CtorOutcomes ==
    [raises : {TRUE}, msg : CtorErrors] \cup [raises : {FALSE}, dim : Dims]

-----------------------------------------------------------------------------
(* os.path *)

RECURSIVE normparts(_, _)
\* os.path.normpath on the components of an absolute path: "." is dropped,
\* ".." removes the component before it (and is dropped at the root).
normparts(done, rest) ==
    IF rest = << >> THEN done
    ELSE IF Head(rest) = "." THEN normparts(done, Tail(rest))
    ELSE IF Head(rest) = ".."
         THEN normparts(IF done = << >> THEN done
                        ELSE SubSeq(done, 1, Len(done) - 1), Tail(rest))
    ELSE normparts(Append(done, Head(rest)), Tail(rest))

\* os.path.abspath(p) = normpath(join(getcwd(), p)).
abspath(p) ==
    AbsPath(normparts(<< >>, IF p.abs THEN p.parts ELSE Cwd \o p.parts))

\* os.path.dirname of an absolute, normalised path.
dirname(p) ==
    IF p.parts = << >> THEN p
    ELSE [abs |-> p.abs, parts |-> SubSeq(p.parts, 1, Len(p.parts) - 1)]

\* os.path.exists
exists(disk, p) == p \in disk

\* Truth value of an Optional[str]: None and "" are false.
Truthy(s) == s # None /\ s.parts # << >>

-----------------------------------------------------------------------------
(* The logger *)

Rec(level, event, data) == [level |-> level, event |-> event, data |-> data]

-----------------------------------------------------------------------------
(* Startup hooks *)

\* BGEM3EmbeddingFunction(model_name=, device=, use_fp16=) when it returns.
BGEM3EmbeddingFunction(model_name, device, use_fp16, dim) ==
    [model_name |-> model_name, device |-> device, use_fp16 |-> use_fp16,
     dim |-> dim]

CtorCall(by, model_name, device, use_fp16, res) ==
    [by |-> by, model_name |-> model_name, device |-> device,
     use_fp16 |-> use_fp16, raised |-> res.raises]

\* startup_event with its except clause dropping the exception.
startup_event_swallow(h, res) ==
    LET model_name == DefaultModel
        device == "cpu"
        use_fp16 == FALSE
        loading == Rec("INFO", "Loading BGE-M3 model", <<model_name, device>>)
        call == CtorCall("startup_event", model_name, device, use_fp16, res)
    IN  IF res.raises
        THEN [handle |-> h, calls |-> <<call>>, raised |-> FALSE,
              log |-> <<loading,
                        Rec("ERROR", "Failed to load BGE-M3 model", res.msg)>>]
        ELSE [handle |-> BGEM3EmbeddingFunction(model_name, device, use_fp16, res.dim),
              calls |-> <<call>>, raised |-> FALSE,
              log |-> <<loading, Rec("INFO", "BGE-M3 model loaded successfully", << >>)>>]

\* startup_event(): h is the global before the hook, res the constructor's outcome.
startup_event(h, res) ==
    LET model_name == DefaultModel
        device == "cpu"
        use_fp16 == FALSE
        loading == Rec("INFO", "Loading BGE-M3 model", <<model_name, device>>)
        call == CtorCall("startup_event", model_name, device, use_fp16, res)
    IN  IF res.raises
        THEN [handle |-> h, calls |-> <<call>>, raised |-> TRUE,
              log |-> <<loading,
                        Rec("ERROR", "Failed to load BGE-M3 model", res.msg)>>]
        ELSE [handle |-> BGEM3EmbeddingFunction(model_name, device, use_fp16, res.dim),
              calls |-> <<call>>, raised |-> FALSE,
              log |-> <<loading, Rec("INFO", "BGE-M3 model loaded successfully", << >>)>>]

\* override_model_settings with the cache location set only for an existing path.
override_model_settings_guarded(h, a, disk, env, res, dimOk) ==
    LET given == Truthy(a.local_model_path)
        local_model_path == abspath(a.local_model_path)
        found == given /\ exists(disk, local_model_path)
        env1 == IF found THEN dirname(local_model_path) ELSE env
        model_name == IF found THEN local_model_path ELSE a.model
        call == CtorCall("override_model_settings", model_name, a.device, a.fp16, res)
    IN  IF res.raises
        THEN [handle |-> h, environ |-> env1, calls |-> <<call>>, raised |-> TRUE,
              log |-> <<Rec("ERROR", "Failed to load BGE-M3 model", res.msg)>>]
        ELSE [handle |-> BGEM3EmbeddingFunction(model_name, a.device, a.fp16, res.dim),
              environ |-> env1, calls |-> <<call>>, raised |-> ~dimOk,
              log |-> << >>]

\* override_model_settings(): a is args, disk the file system, env the cache
\* location before the hook, res the constructor's outcome, dimOk whether the
\* handle's dim property can be read for the two closing log lines.
override_model_settings(h, a, disk, env, res, dimOk) ==
    LET given == Truthy(a.local_model_path)
        local_model_path == abspath(a.local_model_path)
        found == given /\ exists(disk, local_model_path)
        env1 == IF given THEN dirname(local_model_path) ELSE env
        model_name == IF found THEN local_model_path ELSE a.model
        pathLog ==
            IF ~given THEN << >>
            ELSE <<Rec("INFO", "Using local model path", local_model_path)>>
                 \o (IF found THEN << >>
                     ELSE <<Rec("WARNING", "Local model path not found", local_model_path)>>)
        loading == pathLog \o
                   <<Rec("INFO", "Loading BGE-M3 model", <<model_name, a.device>>)>>
        call == CtorCall("override_model_settings", model_name, a.device, a.fp16, res)
    IN  IF res.raises
        THEN [handle |-> h, environ |-> env1, calls |-> <<call>>, raised |-> TRUE,
              log |-> Append(loading,
                             Rec("ERROR", "Failed to load BGE-M3 model", res.msg))]
        ELSE LET new == BGEM3EmbeddingFunction(model_name, a.device, a.fp16, res.dim)
                 loaded == Append(loading,
                                  Rec("INFO", "BGE-M3 model loaded successfully", << >>))
             IN  IF dimOk
                 THEN [handle |-> new, environ |-> env1, calls |-> <<call>>,
                       raised |-> FALSE,
                       log |-> loaded \o
                               <<Rec("INFO", "Dense embedding dimension", new.dim["dense"]),
                                 Rec("INFO", "Sparse embedding dimension", new.dim["sparse"])>>]
                 ELSE [handle |-> new, environ |-> env1, calls |-> <<call>>,
                       raised |-> TRUE,
                       log |-> Append(loaded,
                                      Rec("ERROR", "Failed to load BGE-M3 model", "dim"))]

-----------------------------------------------------------------------------
(* The embedding library's values *)

Texts == {"hello", "world"}

NdArray(buf) == [type |-> "ndarray", buf |-> buf]
PyList(buf) == [type |-> "list", buf |-> buf]

\* scipy csr_array of one row: indices and data are parallel arrays.
CsrArray(indices, data, dimension) ==
    [type |-> "csr_array", indices |-> NdArray(indices), data |-> NdArray(data),
     shape |-> <<1, dimension>>]

\* Entries the library may put in the "dense" list (numbers stand for floats);
\* the last one is an object without tolist().
DenseElems == { NdArray(<<11, 12>>), NdArray(<<21, 22>>), PyList(<<11, 12>>) }

\* Entries the library may put in the "sparse" list; the last one is an object
\* without the attributes of a sparse row.
SparseElems == { CsrArray(<<5>>, <<70>>, 250002), CsrArray(<<2, 9>>, <<30, 40>>, 250002),
                 [type |-> "dict"] }

EncodeErrors == {"CUDA out of memory"}

\* Outcomes of encode_queries / encode_documents.
EncodeOutcomes ==
    [raises : {TRUE}, msg : EncodeErrors]
    \cup [raises : {FALSE}, dense : SeqsUpTo(DenseElems, MaxTexts),
          sparse : SeqsUpTo(SparseElems, MaxTexts)]

\* model_name is any string: the default, another identifier, a path.
RequestModelNames == RemoteModels \cup {AbsPath(<<"models", "bge-m3">>)}

EmbeddingRequests ==
    [texts : SeqsUpTo(Texts, MaxTexts), model_name : RequestModelNames]

\* An f-string with one interpolated message.
FStr(prefix, msg) == [prefix |-> prefix, msg |-> msg]

\* dict.get(key, default)
Get(d, key, default) == IF key \in DOMAIN d THEN d[key] ELSE default

HasAttr(obj, name) == name \in DOMAIN obj

\* ndarray.tolist()
tolist(a) == a.buf
HasToList(a) == a.type = "ndarray"

-----------------------------------------------------------------------------
(* Request handlers *)

HTTPException(status_code, detail, calls, records) ==
    [status |-> status_code, detail |-> detail, body |-> None,
     calls |-> calls, log |-> records]

Returned(body, calls, records) ==
    [status |-> 200, detail |-> None, body |-> body, calls |-> calls, log |-> records]

EmbeddingResponse(embeddings, error) == [embeddings |-> embeddings, error |-> error]

SparseOk(e) ==
    /\ HasAttr(e, "indices") /\ HasToList(e.indices)
    /\ HasAttr(e, "data") /\ HasToList(e.data)
    /\ HasAttr(e, "shape")

Reverse(seq) == [i \in 1..Len(seq) |-> seq[Len(seq) + 1 - i]]

\* serializable_embeddings returning the dense list back to front.
serializable_embeddings_reversed(embeddings) ==
    IF \E i \in 1..Len(embeddings.dense) : ~HasToList(embeddings.dense[i])
    THEN [raises |-> TRUE, msg |-> "object has no attribute 'tolist'"]
    ELSE IF \E i \in 1..Len(embeddings.sparse) : ~SparseOk(embeddings.sparse[i])
    THEN [raises |-> TRUE, msg |-> "object has no attribute 'indices'"]
    ELSE [raises |-> FALSE,
          value |->
            [dense |-> Reverse([i \in 1..Len(embeddings.dense) |->
                                   tolist(embeddings.dense[i])]),
             sparse |-> [i \in 1..Len(embeddings.sparse) |->
                          [indices |-> tolist(embeddings.sparse[i].indices),
                           values |-> tolist(embeddings.sparse[i].data),
                           shape |-> embeddings.sparse[i].shape]]]]

\* The dict built from the library's output: the dense comprehension runs
\* first, then the sparse one; the first element that cannot be converted raises.
serializable_embeddings(embeddings) ==
    IF \E i \in 1..Len(embeddings.dense) : ~HasToList(embeddings.dense[i])
    THEN [raises |-> TRUE, msg |-> "object has no attribute 'tolist'"]
    ELSE IF \E i \in 1..Len(embeddings.sparse) : ~SparseOk(embeddings.sparse[i])
    THEN [raises |-> TRUE, msg |-> "object has no attribute 'indices'"]
    ELSE [raises |-> FALSE,
          value |->
            [dense |-> [i \in 1..Len(embeddings.dense) |-> tolist(embeddings.dense[i])],
             sparse |-> [i \in 1..Len(embeddings.sparse) |->
                          [indices |-> tolist(embeddings.sparse[i].indices),
                           values |-> tolist(embeddings.sparse[i].data),
                           shape |-> embeddings.sparse[i].shape]]]]

MismatchWarning(h, request) ==
    IF request.model_name # h.model_name
    THEN <<Rec("WARNING", "Requested model doesn't match loaded model",
               <<request.model_name, h.model_name>>)>>
    ELSE << >>

\* A single call of the handle's query encoder, one call per text.
encode_queries_chunked(texts) ==
    [i \in 1..Len(texts) |-> [op |-> "encode_queries", arg |-> <<texts[i]>>]]

\* bge_m3_ef.encode_queries(texts): the calls it makes on the model.
encode_queries(texts) == <<[op |-> "encode_queries", arg |-> texts]>>

\* bge_m3_ef.encode_documents(texts): the calls it makes on the model.
encode_documents(texts) == <<[op |-> "encode_documents", arg |-> texts]>>

\* The except clause of embed answering with an internal-error status.
embed_except_raise(msg, calls, records) ==
    HTTPException(500, FStr("Failed to generate embeddings: ", msg), calls,
                  Append(records, Rec("ERROR", "Error generating embeddings", msg)))

\* The except clause of embed.
embed_except(msg, calls, records) ==
    Returned(EmbeddingResponse(<< >>, FStr("Failed to generate embeddings: ", msg)),
             calls,
             Append(records, Rec("ERROR", "Error generating embeddings", msg)))

\* The except clause of embed_document.
embed_document_except(msg, calls, records) ==
    Returned(EmbeddingResponse(<< >>,
                 FStr("Failed to generate document embeddings: ", msg)),
             calls,
             Append(records, Rec("ERROR", "Error generating document embeddings", msg)))

\* The try block of embed rejecting a request for another model.
embed_try_strict(h, request, out) ==
    LET calls == encode_queries(request.texts)
        log1 == <<Rec("INFO", "Generating query embeddings", Len(request.texts))>>
    IN  IF request.model_name # h.model_name
        THEN embed_except("model not loaded", << >>, << >>)
        ELSE IF out.raises THEN embed_except(out.msg, calls, log1)
        ELSE LET ser == serializable_embeddings(out)
             IN  IF ser.raises THEN embed_except(ser.msg, calls, log1)
                 ELSE Returned(EmbeddingResponse(ser.value, None), calls,
                               Append(log1, Rec("INFO", "Generated embeddings", ser.value)))

\* The try block of embed with its except clause: h is the (non-null) global,
\* out the outcome of the encode call.
embed_try(h, request, out) ==
    LET calls == encode_queries(request.texts)
        log1 == MismatchWarning(h, request) \o
                <<Rec("INFO", "Generating query embeddings", Len(request.texts))>>
    IN  IF out.raises THEN embed_except(out.msg, calls, log1)
        ELSE LET ser == serializable_embeddings(out)
             IN  IF ser.raises THEN embed_except(ser.msg, calls, log1)
                 ELSE Returned(EmbeddingResponse(ser.value, None), calls,
                               Append(log1, Rec("INFO", "Generated embeddings", ser.value)))

\* embed without the test of the global: None has no model_name, which the
\* try block catches.
embed_nocheck(h, request, out) ==
    IF h = None
    THEN embed_except("'NoneType' object has no attribute 'model_name'", << >>, << >>)
    ELSE embed_try(h, request, out)

\* embed(request): h is the global, out the outcome of the encode call.
embed(h, request, out) ==
    IF h = None
    THEN HTTPException(500, FStr("Embedding model not initialized", ""), << >>, << >>)
    ELSE embed_try(h, request, out)

\* The try block of embed_document with its except clause.
embed_document_try(h, request, out) ==
    LET calls == encode_documents(request.texts)
        log1 == MismatchWarning(h, request) \o
                <<Rec("INFO", "Generating document embeddings", Len(request.texts))>>
    IN  IF out.raises THEN embed_document_except(out.msg, calls, log1)
        ELSE LET ser == serializable_embeddings(out)
             IN  IF ser.raises THEN embed_document_except(ser.msg, calls, log1)
                 ELSE Returned(EmbeddingResponse(ser.value, None), calls, log1)

\* embed_document(request)
embed_document(h, request, out) ==
    IF h = None
    THEN HTTPException(500, FStr("Embedding model not initialized", ""), << >>, << >>)
    ELSE embed_document_try(h, request, out)

\* The sentence health_check encodes.
test_text == "This is a test sentence for health check."

\* health_check reporting the dimensions of the default model.
health_check_fixed_dims(h, out, dimOk) ==
    IF h = None
    THEN HTTPException(503, FStr("Embedding model not initialized", ""), << >>, << >>)
    ELSE
        LET calls == encode_queries(<<test_text>>)
            failed(msg) ==
                HTTPException(503, FStr("Model check failed: ", msg), calls,
                              <<Rec("ERROR", "Health check failed", msg)>>)
        IN  IF out.raises THEN failed(out.msg)
            ELSE IF ~dimOk THEN failed("dim")
            ELSE Returned([status |-> "healthy", model |-> h.model_name,
                           dimensions |-> [dense |-> 1024, sparse |-> 250002]],
                          calls, << >>)

\* health_check(): out is the outcome of the probe, dimOk whether the handle's
\* dim property can be read.
health_check(h, out, dimOk) ==
    IF h = None
    THEN HTTPException(503, FStr("Embedding model not initialized", ""), << >>, << >>)
    ELSE
        LET calls == encode_queries(<<test_text>>)
            failed(msg) ==
                HTTPException(503, FStr("Model check failed: ", msg), calls,
                              <<Rec("ERROR", "Health check failed", msg)>>)
        IN  IF out.raises THEN failed(out.msg)
            ELSE IF ~dimOk THEN failed("dim")
            ELSE Returned([status |-> "healthy", model |-> h.model_name,
                           dimensions |-> [dense |-> Get(h.dim, "dense", 0),
                                           sparse |-> Get(h.dim, "sparse", 0)]],
                          calls, << >>)

-----------------------------------------------------------------------------
(* The process *)

\* The module has been imported: the app exists with startup_event registered.
InitOn(disks) ==
    /\ server = "imported"
    /\ launcher = FALSE
    /\ on_startup = <<"startup_event">>
    /\ hookIdx = 1
    /\ args = None
    /\ fs \in disks
    /\ environ = None
    /\ bge_m3_ef = None
    /\ ctorCalls = << >>
    /\ log = << >>
    /\ last = None

\* The __main__ block: parse the command line, register the second hook,
\* uvicorn.run(app) (which runs the startup hooks before serving).
Main(Args) ==
    /\ server = "imported"
    /\ \E a \in Args : args' = a
    /\ launcher' = TRUE
    /\ on_startup' = Append(on_startup, "override_model_settings")
    /\ server' = "starting"
    /\ UNCHANGED <<hookIdx, fs, environ, bge_m3_ef, ctorCalls, log, last>>

\* The module is imported by an ASGI host, which runs the application's
\* startup hooks (lifespan) or calls the handlers without running them.
Host ==
    /\ server = "imported"
    /\ \E lifespan \in BOOLEAN :
          server' = IF lifespan THEN "starting" ELSE "serving"
    /\ UNCHANGED <<launcher, on_startup, hookIdx, args, fs, environ, bge_m3_ef,
                   ctorCalls, log, last>>

\* The startup loop after one hook: a hook that raises ends the startup and
\* the process; after the last hook the server accepts requests.
AfterHook(raised) ==
    /\ hookIdx' = hookIdx + 1
    /\ server' = IF raised THEN "exited"
                 ELSE IF hookIdx = Len(on_startup) THEN "serving" ELSE "starting"

StartupEvent ==
    /\ server = "starting"
    /\ hookIdx <= Len(on_startup)
    /\ on_startup[hookIdx] = "startup_event"
    /\ \E res \in CtorOutcomes :
         LET r == startup_event(bge_m3_ef, res)
         IN  /\ bge_m3_ef' = r.handle
             /\ ctorCalls' = ctorCalls \o r.calls
             /\ log' = log \o r.log
             /\ AfterHook(r.raised)
    /\ UNCHANGED <<launcher, on_startup, args, fs, environ, last>>

OverrideModelSettings ==
    /\ server = "starting"
    /\ hookIdx <= Len(on_startup)
    /\ on_startup[hookIdx] = "override_model_settings"
    /\ \E res \in CtorOutcomes, dimOk \in BOOLEAN :
         LET r == override_model_settings(bge_m3_ef, args, fs, environ, res, dimOk)
         IN  /\ bge_m3_ef' = r.handle
             /\ environ' = r.environ
             /\ ctorCalls' = ctorCalls \o r.calls
             /\ log' = log \o r.log
             /\ AfterHook(r.raised)
    /\ UNCHANGED <<launcher, on_startup, args, fs, last>>

\* One request at a time: the handlers never await, so a request is handled
\* in one step; last holds it until the response has been sent.
Idle == server = "serving" /\ last = None

Handled(endpoint, request, out, dimOk, r) ==
    /\ last' = [endpoint |-> endpoint, request |-> request, out |-> out,
                dimOk |-> dimOk, handle |-> bge_m3_ef,
                status |-> r.status, detail |-> r.detail, body |-> r.body,
                calls |-> r.calls, log |-> r.log]
    /\ UNCHANGED <<server, launcher, on_startup, hookIdx, args, fs, environ,
                   bge_m3_ef, ctorCalls, log>>

Embed(Requests, Outcomes) ==
    /\ Idle
    /\ \E request \in Requests, out \in Outcomes :
         Handled("/embed", request, out, TRUE, embed(bge_m3_ef, request, out))

EmbedDocument(Requests, Outcomes) ==
    /\ Idle
    /\ \E request \in Requests, out \in Outcomes :
         Handled("/embed/document", request, out, TRUE,
                 embed_document(bge_m3_ef, request, out))

HealthCheck(Outcomes) ==
    /\ Idle
    /\ \E out \in Outcomes, dimOk \in BOOLEAN :
         Handled("/health", None, out, dimOk, health_check(bge_m3_ef, out, dimOk))

\* The response (or the error status) has been sent.
Respond ==
    /\ server = "serving"
    /\ last # None
    /\ last' = None
    /\ UNCHANGED <<server, launcher, on_startup, hookIdx, args, fs, environ,
                   bge_m3_ef, ctorCalls, log>>

-----------------------------------------------------------------------------
(* Specification of the startup: every command line on every disk, a few
   requests. *)

StartupRequests == [texts : {<<"hello">>}, model_name : RemoteModels]
StartupOutcomes ==
    [raises : {TRUE}, msg : EncodeErrors]
    \cup [raises : {FALSE}, dense : {<<NdArray(<<11, 12>>)>>},
          sparse : {<<CsrArray(<<5>>, <<70>>, 250002)>>}]

Init == InitOn(FileSystems)

Next ==
    \/ Main(LaunchArgs)
    \/ Host
    \/ StartupEvent
    \/ OverrideModelSettings
    \/ Embed(StartupRequests, StartupOutcomes)
    \/ EmbedDocument(StartupRequests, StartupOutcomes)
    \/ HealthCheck(StartupOutcomes)
    \/ Respond

Spec == Init /\ [][Next]_vars

(* Specification of the request handlers: every request and every outcome
   of the library, a few command lines. *)

ServeDisks == { {AbsPath(<<"models", "bge-m3">>)} }
ServeArgs ==
    { [model |-> OtherModel, local_model_path |-> None,
       device |-> "cpu", fp16 |-> FALSE],
      [model |-> DefaultModel, local_model_path |-> AbsPath(<<"models", "bge-m3">>),
       device |-> "cuda:0", fp16 |-> TRUE] }

InitServe == InitOn(ServeDisks)

NextServe ==
    \/ Main(ServeArgs)
    \/ Host
    \/ StartupEvent
    \/ OverrideModelSettings
    \/ Embed(EmbeddingRequests, EncodeOutcomes)
    \/ EmbedDocument(EmbeddingRequests, EncodeOutcomes)
    \/ HealthCheck(EncodeOutcomes)
    \/ Respond

SpecServe == InitServe /\ [][NextServe]_vars

-----------------------------------------------------------------------------
(* Properties *)

Constructed == {i \in 1..Len(ctorCalls) : ~ctorCalls[i].raised}
ByOverride == {i \in 1..Len(ctorCalls) : ctorCalls[i].by = "override_model_settings"}
LocalGiven == launcher /\ Truthy(args.local_model_path)
LocalFound == LocalGiven /\ exists(fs, abspath(args.local_model_path))

EmbedHandled ==
    /\ last # None
    /\ last.endpoint \in {"/embed", "/embed/document"}
    /\ last.handle # None

\* The exception raised after the null check of embed / embed_document, if any.
DenseFails(out) == \E i \in 1..Len(out.dense) : out.dense[i].type # "ndarray"
SparseFails(out) == \E i \in 1..Len(out.sparse) : out.sparse[i].type # "csr_array"
Raises(out) == out.raises \/ DenseFails(out) \/ SparseFails(out)
Raised(out) ==
    IF out.raises THEN out.msg
    ELSE IF DenseFails(out) THEN "object has no attribute 'tolist'"
    ELSE "object has no attribute 'indices'"

\* C1: in a run started through the launcher the model is constructed exactly
\* once: the constructor is never called a second time, the global is never
\* assigned a second time, and a serving process has made exactly one call.
C1_ConstructedExactlyOnce ==
    launcher =>
        /\ Len(ctorCalls) <= 1
        /\ Cardinality(Constructed) <= 1
        /\ (server = "serving" => Len(ctorCalls) = 1)

\* C2: with a non-null handle, embed and embed_document always return an
\* EmbeddingResponse with status 200; when the encode call or a conversion
\* raises, its embeddings is the empty mapping and its error carries the
\* exception message; error is set iff embeddings is the empty mapping, and a
\* response without error has exactly the keys dense and sparse.
C2_FailuresAreResponses ==
    EmbedHandled =>
        /\ last.status = 200
        /\ last.detail = None
        /\ last.body # None
        /\ Raises(last.out) =>
              /\ DOMAIN last.body.embeddings = {}
              /\ last.body.error # None
              /\ last.body.error.msg = Raised(last.out)
        /\ (last.body.error # None) <=> (DOMAIN last.body.embeddings = {})
        /\ (last.body.error = None) =>
              DOMAIN last.body.embeddings = {"dense", "sparse"}

C2_Witness ==
    /\ EmbedHandled
    /\ ~last.out.raises
    /\ Len(last.out.dense) = 2
    /\ ~DenseFails(last.out)
    /\ SparseFails(last.out)
    /\ last.status = 200
    /\ last.body.error # None

\* C3: a request handled while the handle is null ends with status 500
\* (embed, embed_document) or 503 (health), calls no encode operation,
\* produces no EmbeddingResponse and leaves the handle null.
C3_NullHandleFails ==
    (last # None /\ last.handle = None) =>
        /\ last.status = (IF last.endpoint = "/health" THEN 503 ELSE 500)
        /\ last.calls = << >>
        /\ last.body = None
        /\ bge_m3_ef = None

C3_Witness ==
    /\ last # None
    /\ last.handle = None
    /\ last.endpoint = "/embed"
    /\ last.status = 500

\* C4: when a model construction raises during startup the error is logged,
\* the process exits without serving: the failing hook is the last hook that
\* ran, and no request is ever handled.
C4_StartupFailureIsFatal ==
    \A i \in 1..Len(ctorCalls) :
        ctorCalls[i].raised =>
            /\ i = Len(ctorCalls)
            /\ hookIdx = i + 1
            /\ server = "exited"
            /\ last = None
            /\ log # << >>
            /\ log[Len(log)].level = "ERROR"
            /\ log[Len(log)].event = "Failed to load BGE-M3 model"

C4_Witness ==
    /\ launcher
    /\ Len(ctorCalls) = 1
    /\ ctorCalls[1].raised
    /\ Len(on_startup) = 2
    /\ server = "exited"
    /\ bge_m3_ef = None

\* C5 as stated: once override_model_settings has run, an existing local
\* path is the identifier passed to the constructor and the cache location is
\* its parent directory; otherwise the identifier is --model and the cache
\* location is not set.
C5_PathResolution ==
    \A i \in ByOverride :
        IF LocalFound
        THEN /\ ctorCalls[i].model_name = abspath(args.local_model_path)
             /\ environ = dirname(abspath(args.local_model_path))
        ELSE /\ ctorCalls[i].model_name = args.model
             /\ environ = None

\* C5 amended: once override_model_settings has run, the identifier passed to
\* the constructor is the absolute local path if it exists and --model
\* otherwise; the cache location is the parent directory of the absolute local
\* path whenever a non-empty local path was given, existing or not, and is
\* unset only when none was given.
C5_PathResolutionAmended ==
    \A i \in ByOverride :
        /\ ctorCalls[i].model_name =
              (IF LocalFound THEN abspath(args.local_model_path) ELSE args.model)
        /\ environ =
              (IF LocalGiven THEN dirname(abspath(args.local_model_path)) ELSE None)

C5_Witness ==
    /\ ByOverride # {}
    /\ LocalGiven
    /\ ~LocalFound
    /\ ~args.local_model_path.abs
    /\ environ = AbsPath(<<"srv", "cache">>)
    /\ ctorCalls[Len(ctorCalls)].model_name = args.model

\* C6: in a response without error, when the library returned one dense and
\* one sparse entry per text, the response has one dense and one sparse entry
\* per text, entry i is the conversion of the library's entry i, and the
\* indices and values of every sparse entry have the same length.
C6_OneEntryPerText ==
    (/\ EmbedHandled
     /\ last.body.error = None
     /\ Len(last.out.dense) = Len(last.request.texts)
     /\ Len(last.out.sparse) = Len(last.request.texts)) =>
        LET n == Len(last.request.texts)
            e == last.body.embeddings
        IN  /\ Len(e.dense) = n
            /\ Len(e.sparse) = n
            /\ \A i \in 1..n :
                  /\ e.dense[i] = last.out.dense[i].buf
                  /\ e.sparse[i].indices = last.out.sparse[i].indices.buf
                  /\ e.sparse[i].values = last.out.sparse[i].data.buf
                  /\ e.sparse[i].shape = last.out.sparse[i].shape
                  /\ Len(e.sparse[i].indices) = Len(e.sparse[i].values)

C6_Witness ==
    /\ EmbedHandled
    /\ last.body.error = None
    /\ Len(last.request.texts) = 2
    /\ Len(last.out.dense) = 2
    /\ Len(last.out.sparse) = 2
    /\ last.out.dense[1] # last.out.dense[2]
    /\ last.out.sparse[1] # last.out.sparse[2]

\* C7: the same request with any other model_name, served with the same
\* handle and the same outcome of the library, gets the same status, the same
\* response and makes the same call; a mismatch adds a warning to the log and
\* nothing else.
C7_ModelNameIgnored ==
    EmbedHandled =>
        \A m \in RequestModelNames :
            LET other == [last.request EXCEPT !.model_name = m]
                r == IF last.endpoint = "/embed"
                     THEN embed(last.handle, other, last.out)
                     ELSE embed_document(last.handle, other, last.out)
            IN  /\ r.status = last.status
                /\ r.detail = last.detail
                /\ r.body = last.body
                /\ r.calls = last.calls
                /\ (m # last.handle.model_name) <=>
                      (\E k \in 1..Len(r.log) : r.log[k].level = "WARNING")

C7_Witness ==
    /\ EmbedHandled
    /\ last.endpoint = "/embed"
    /\ last.request.model_name # last.handle.model_name
    /\ last.handle.model_name \in RequestModelNames
    /\ last.body.error = None
    /\ last.log[1].level = "WARNING"

\* C8: health_check with a non-null handle makes exactly one encode_queries
\* call on the probe sentence; when the call returns and the dimensions can
\* be read the response is healthy with the handle's identifier and
\* dimensions, otherwise the status is 503 with the exception message; the
\* handle is not modified.
C8_HealthProbe ==
    (last # None /\ last.endpoint = "/health" /\ last.handle # None) =>
        /\ last.calls = <<[op |-> "encode_queries", arg |-> <<test_text>>]>>
        /\ bge_m3_ef = last.handle
        /\ IF last.out.raises
           THEN /\ last.status = 503
                /\ last.detail.msg = last.out.msg
                /\ last.body = None
           ELSE IF ~last.dimOk
           THEN /\ last.status = 503
                /\ last.detail # None
                /\ last.body = None
           ELSE /\ last.status = 200
                /\ last.body.status = "healthy"
                /\ last.body.model = last.handle.model_name
                /\ last.body.dimensions.dense = last.handle.dim["dense"]
                /\ last.body.dimensions.sparse = last.handle.dim["sparse"]

C8_Witness ==
    /\ last # None
    /\ last.endpoint = "/health"
    /\ last.handle # None
    /\ last.status = 200
    /\ last.handle.dim["dense"] = 768
    /\ last.handle.model_name.abs

\* C9: with a non-null handle, embed makes exactly one call, encode_queries
\* on the request's texts, and embed_document makes exactly one call,
\* encode_documents on the request's texts.
C9_OneCallWholeBatch ==
    EmbedHandled =>
        last.calls =
            <<[op |-> IF last.endpoint = "/embed"
                      THEN "encode_queries" ELSE "encode_documents",
               arg |-> last.request.texts]>>

C9_Witness ==
    /\ EmbedHandled
    /\ last.endpoint = "/embed"
    /\ last.request.texts = <<"hello", "hello">>
    /\ Len(last.calls) = 1

\* C10: when the launcher is given a local model path that exists, every
\* construction of the run uses that path with the device and precision of
\* the command line, and startup fails only if that construction fails.
C10_NoRemoteConstruction ==
    LocalFound =>
        \A i \in 1..Len(ctorCalls) :
            /\ ctorCalls[i].model_name = abspath(args.local_model_path)
            /\ ctorCalls[i].device = args.device
            /\ ctorCalls[i].use_fp16 = args.fp16

====
